---- MODULE Spec2Model ----
(***************************************************************************)
(* Model of biz_tracker.py: the mention extractor (extract_coins), the     *)
(* catalog fetcher (fetch_catalog), the aggregator (analyze) and the       *)
(* top-level run (main).                                                   *)
(*                                                                         *)
(* A text is a sequence of one-character strings.  A JSON object is a      *)
(* function whose domain is the set of keys that are present, so that a    *)
(* missing key and dict.get's default are modelled as they are coded.      *)
(***************************************************************************)
EXTENDS Integers, Sequences, FiniteSets, TLC

VARIABLES
    response,      \* what the catalog endpoint answers in this run
    json_error_is_request_exception,
                   \* whether the installed requests library derives its
                   \* JSON decode error from RequestException
    pc,            \* position of main()
    threads,       \* main: threads (result of fetch_catalog)
    idx,           \* analyze: number of threads the for loop has processed
    coin_counts,   \* analyze: coin_counts
    hot_threads,   \* analyze: hot_threads (the working list, then the result)
    html,          \* main: html
    file,          \* content of index.html on disk
    out,           \* messages printed so far, oldest first
    steps,         \* pipeline steps entered so far, oldest first
    text,          \* analyze: text, the argument of extract_coins
    found          \* extract_coins: found, the set it returns

vars == <<response, json_error_is_request_exception, pc, threads, idx,
          coin_counts, hot_threads, html, file, out, steps, text, found>>

(***************************************************************************)
(* Bounds                                                                  *)
(***************************************************************************)
MaxPages == 3
MaxChunks == 4

(***************************************************************************)
(* Coin tables                                                             *)
(***************************************************************************)
COINS ==
    [BTC |-> "Bitcoin", ETH |-> "Ethereum", SOL |-> "Solana",
     XRP |-> "Ripple", BNB |-> "BNB", ADA |-> "Cardano",
     DOGE |-> "Dogecoin", AVAX |-> "Avalanche", DOT |-> "Polkadot",
     MATIC |-> "Polygon", LINK |-> "Chainlink", UNI |-> "Uniswap",
     ATOM |-> "Cosmos", LTC |-> "Litecoin", BCH |-> "Bitcoin Cash",
     NEAR |-> "NEAR Protocol", ICP |-> "Internet Computer", VET |-> "VeChain",
     FIL |-> "Filecoin", HBAR |-> "Hedera", ALGO |-> "Algorand",
     XLM |-> "Stellar", ETC |-> "Ethereum Classic", SAND |-> "The Sandbox",
     MANA |-> "Decentraland", AXS |-> "Axie Infinity", THETA |-> "Theta",
     EOS |-> "EOS", XTZ |-> "Tezos", FTM |-> "Fantom",
     CAKE |-> "PancakeSwap", CRO |-> "Cronos", GRT |-> "The Graph",
     ZEC |-> "Zcash", DASH |-> "Dash", XMR |-> "Monero",
     SHIB |-> "Shiba Inu", PEPE |-> "Pepe", WIF |-> "dogwifhat",
     BONK |-> "Bonk", FLOKI |-> "Floki", TRUMP |-> "TRUMP",
     TRX |-> "TRON", SUI |-> "Sui", SEI |-> "Sei",
     INJ |-> "Injective", ARB |-> "Arbitrum", OP |-> "Optimism",
     TON |-> "Toncoin", APT |-> "Aptos", STX |-> "Stacks",
     AAVE |-> "Aave", CRV |-> "Curve", MKR |-> "Maker",
     SNX |-> "Synthetix", COMP |-> "Compound", YFI |-> "Yearn Finance",
     SUSHI |-> "SushiSwap", WLD |-> "Worldcoin", FET |-> "Fetch.ai",
     RENDER |-> "Render", TAO |-> "Bittensor", OCEAN |-> "Ocean Protocol",
     JUP |-> "Jupiter", RAY |-> "Raydium", ORCA |-> "Orca",
     BOME |-> "Book of Meme", POPCAT |-> "Popcat", MEW |-> "Cat in a Dog World",
     PENDLE |-> "Pendle", LDO |-> "Lido DAO", RPL |-> "Rocket Pool",
     MOVE |-> "Movement", EIGEN |-> "EigenLayer", PYTH |-> "Pyth Network",
     JTO |-> "Jito", NOT |-> "Notcoin", BLUR |-> "Blur",
     IMX |-> "ImmutableX"]

\* ALIASES with the alias sats pointing at a symbol COINS does not have
ALIASES_BadTarget ==
    [bitcoin |-> "BTC", satoshi |-> "BTC", sats |-> "XBT",
     ethereum |-> "ETH", ether |-> "ETH", vitalik |-> "ETH",
     solana |-> "SOL", ripple |-> "XRP",
     dogecoin |-> "DOGE", shiba |-> "SHIB", shib |-> "SHIB",
     pepe |-> "PEPE", cardano |-> "ADA",
     polygon |-> "MATIC", avalanche |-> "AVAX",
     chainlink |-> "LINK", litecoin |-> "LTC",
     monero |-> "XMR", tron |-> "TRX",
     toncoin |-> "TON", trump |-> "TRUMP",
     dogwifhat |-> "WIF", bonk |-> "BONK",
     floki |-> "FLOKI", render |-> "RENDER",
     bittensor |-> "TAO", worldcoin |-> "WLD",
     arbitrum |-> "ARB", optimism |-> "OP",
     injective |-> "INJ", jupiter |-> "JUP"]

ALIASES ==
    [bitcoin |-> "BTC", satoshi |-> "BTC", sats |-> "BTC",
     ethereum |-> "ETH", ether |-> "ETH", vitalik |-> "ETH",
     solana |-> "SOL", ripple |-> "XRP",
     dogecoin |-> "DOGE", shiba |-> "SHIB", shib |-> "SHIB",
     pepe |-> "PEPE", cardano |-> "ADA",
     polygon |-> "MATIC", avalanche |-> "AVAX",
     chainlink |-> "LINK", litecoin |-> "LTC",
     monero |-> "XMR", tron |-> "TRX",
     toncoin |-> "TON", trump |-> "TRUMP",
     dogwifhat |-> "WIF", bonk |-> "BONK",
     floki |-> "FLOKI", render |-> "RENDER",
     bittensor |-> "TAO", worldcoin |-> "WLD",
     arbitrum |-> "ARB", optimism |-> "OP",
     injective |-> "INJ", jupiter |-> "JUP"]

(***************************************************************************)
(* Characters and the regular-expression primitives extract_coins uses     *)
(***************************************************************************)
UpperOf ==
    [a |-> "A", b |-> "B", c |-> "C", d |-> "D", e |-> "E", f |-> "F",
     g |-> "G", h |-> "H", i |-> "I", j |-> "J", k |-> "K", l |-> "L",
     m |-> "M", n |-> "N", o |-> "O", p |-> "P", q |-> "Q", r |-> "R",
     s |-> "S", t |-> "T", u |-> "U", v |-> "V", w |-> "W", x |-> "X",
     y |-> "Y", z |-> "Z"]

LowerLetters == DOMAIN UpperOf

\* the character class [A-Z]
UpperLetters == {UpperOf[c] : c \in LowerLetters}

Digits == {"0", "1", "2", "3", "4", "5", "6", "7", "8", "9"}

\* the characters \w matches, which decide where \b holds
WordChars == LowerLetters \cup UpperLetters \cup Digits \cup {"_"}

IsWord(c) == c \in WordChars

\* str.lower() on one character
LowerChar(c) ==
    IF c \in UpperLetters
    THEN CHOOSE l \in LowerLetters : UpperOf[l] = c
    ELSE c

\* str.lower()
lower(s) == [k \in 1..Len(s) |-> LowerChar(s[k])]

\* the Python string a sequence of characters stands for
RECURSIVE Join(_)
Join(s) == IF s = <<>> THEN "" ELSE Head(s) \o Join(Tail(s))

Range(s) == {s[k] : k \in 1..Len(s)}

Max(S) == CHOOSE m \in S : \A n \in S : n <= m

Min(S) == CHOOSE m \in S : \A n \in S : m <= n

\* \b between s[p] and s[p+1]; outside the string counts as a non-word
Boundary(s, p) ==
    LET w(k) == k \in 1..Len(s) /\ IsWord(s[k])
    IN  w(p) /= w(p + 1)

\* length of the match of <[^>]+> that starts at i, or 0
TagLen(s, i) ==
    LET closers == {k \in (i + 1)..Len(s) : s[k] = ">"}
    IN  IF s[i] = "<" /\ closers /= {} /\ Min(closers) >= i + 2
        THEN Min(closers) - i + 1
        ELSE 0

\* re.sub(r'<[^>]+>', ' ', s), scanning from position i
RECURSIVE strip_from(_, _)
strip_from(s, i) ==
    IF i > Len(s) THEN <<>>
    ELSE IF TagLen(s, i) > 0
         THEN <<" ">> \o strip_from(s, i + TagLen(s, i))
         ELSE <<s[i]>> \o strip_from(s, i + 1)

strip_tags(s) == strip_from(s, 1)

\* the search without the two \b: a plain substring search
search_alias_Substring(alias, low) ==
    \E i \in 1..(Len(low) - Len(alias) + 1) :
        Join(SubSeq(low, i, i + Len(alias) - 1)) = alias

\* re.search(r'\b' + re.escape(alias) + r'\b', low)
search_alias(alias, low) ==
    \E i \in 1..(Len(low) - Len(alias) + 1) :
        /\ Boundary(low, i - 1)
        /\ Join(SubSeq(low, i, i + Len(alias) - 1)) = alias
        /\ Boundary(low, i + Len(alias) - 1)

\* length of the (greedy) match of \b[A-Z]{2,8}\b that starts at i, or 0
SymbolLen(s, i) ==
    LET lens == {k \in 2..8 :
                    /\ i + k - 1 <= Len(s)
                    /\ \A j \in i..(i + k - 1) : s[j] \in UpperLetters
                    /\ Boundary(s, i + k - 1)}
    IN  IF Boundary(s, i - 1) /\ lens /= {} THEN Max(lens) ELSE 0

\* re.findall(r'\b[A-Z]{2,8}\b', s), scanning from position i
RECURSIVE findall_from(_, _)
findall_from(s, i) ==
    IF i > Len(s) THEN <<>>
    ELSE IF SymbolLen(s, i) > 0
         THEN <<Join(SubSeq(s, i, i + SymbolLen(s, i) - 1))>>
                  \o findall_from(s, i + SymbolLen(s, i))
         ELSE findall_from(s, i + 1)

findall_symbols(s) == findall_from(s, 1)

\* extract_coins(text); the list it returns is list(found), a set in
\* unspecified order
extract_coins(txt) ==
    IF txt = <<>> THEN {}
    ELSE LET clean == strip_tags(txt)
             low == lower(clean)
         IN  {ALIASES[a] : a \in {b \in DOMAIN ALIASES : search_alias(b, low)}}
                 \cup {w \in Range(findall_symbols(clean)) : w \in DOMAIN COINS}

(***************************************************************************)
(* JSON values and exceptions                                              *)
(***************************************************************************)
\* dict.get(key, default)
Get(d, key, default) == IF key \in DOMAIN d THEN d[key] ELSE default

\* a JSON value that is not an object has no .get: calling it raises
\* AttributeError
NotAnObject == [not_an_object |-> TRUE]

IsObject(v) == "not_an_object" \notin DOMAIN v

NoException == "none"

TransportErrors == {"ConnectionError", "Timeout", "HTTPError"}

\* isinstance(e, requests.exceptions.RequestException)
IsRequestException(e, json_is_request) ==
    \/ e \in TransportErrors
    \/ e = "JSONDecodeError" /\ json_is_request

Message(msg, cause) == [msg |-> msg, cause |-> cause]

\* the two except clauses of main: the state main ends in and what it prints
\* the except clauses without the raise of the second one
Handler_Swallow(e, json_is_request) ==
    IF IsRequestException(e, json_is_request)
    THEN [pc |-> "returned", print |-> Message("network_error", e)]
    ELSE [pc |-> "returned", print |-> Message("error", e)]

\* the except clauses with a raise in both
Handler_Reraise(e, json_is_request) ==
    IF IsRequestException(e, json_is_request)
    THEN [pc |-> "raised", print |-> Message("network_error", e)]
    ELSE [pc |-> "raised", print |-> Message("error", e)]

\* the except clauses with the first one starting the run again
Handler_Retry(e, json_is_request) ==
    IF IsRequestException(e, json_is_request)
    THEN [pc |-> "start", print |-> Message("network_error", e)]
    ELSE [pc |-> "raised", print |-> Message("error", e)]

Handler(e, json_is_request) ==
    IF IsRequestException(e, json_is_request)
    THEN [pc |-> "returned", print |-> Message("network_error", e)]
    ELSE [pc |-> "raised", print |-> Message("error", e)]

(***************************************************************************)
(* fetch_catalog                                                           *)
(***************************************************************************)
\* the loop over the pages: threads.extend(page.get("threads", []))
RECURSIVE flatten(_)
flatten(catalog) ==
    IF catalog = <<>> THEN <<>>
    ELSE Get(Head(catalog), "threads", <<>>) \o flatten(Tail(catalog))

\* the exception fetch_catalog raises for a response, or NoException
\* as fetch_error, with page["threads"] in place of page.get("threads", [])
fetch_error_RequireThreads(resp) ==
    IF resp.kind \in TransportErrors THEN resp.kind
    ELSE IF resp.kind = "not_json" THEN "JSONDecodeError"
    ELSE IF \E p \in 1..Len(resp.body) : "threads" \notin DOMAIN resp.body[p]
         THEN "KeyError"
    ELSE NoException

fetch_error(resp) ==
    IF resp.kind \in TransportErrors THEN resp.kind
    ELSE IF resp.kind = "not_json" THEN "JSONDecodeError"
    ELSE NoException

(***************************************************************************)
(* analyze                                                                 *)
(***************************************************************************)
Take(s, n) == SubSeq(s, 1, IF Len(s) < n THEN Len(s) ELSE n)

\* " ".join([t.get("sub", "") or "", t.get("com", "") or ""])
thread_text(t) == Get(t, "sub", <<>>) \o <<" ">> \o Get(t, "com", <<>>)

\* the number of matches the two passes of extract_coins make for sym in txt
Occurrences(sym, txt) ==
    LET clean == strip_tags(txt)
        syms == findall_symbols(clean)
    IN  Cardinality({a \in DOMAIN ALIASES :
                        ALIASES[a] = sym /\ search_alias(a, lower(clean))})
            + Cardinality({k \in 1..Len(syms) : syms[k] = sym})

\* the inner for loop: count += 1 and threads.append(t.get("no")) for each
\* symbol of coins
\* as update_counts, but adding 1 for every match instead of 1 a thread
update_counts_PerOccurrence(counts, coins, t) ==
    [sym \in DOMAIN counts \cup coins |->
        LET old == Get(counts, sym, [count |-> 0, threads |-> <<>>])
        IN  IF sym \in coins
            THEN [count |-> old.count + Occurrences(sym, thread_text(t)),
                  threads |-> Append(old.threads, t.no)]
            ELSE old]

update_counts(counts, coins, t) ==
    [sym \in DOMAIN counts \cup coins |->
        LET old == Get(counts, sym, [count |-> 0, threads |-> <<>>])
        IN  IF sym \in coins
            THEN [count |-> old.count + 1,
                  threads |-> Append(old.threads, t.no)]
            ELSE old]

\* the record appended to hot_threads
hot_entry(t, coins) ==
    [no |-> t.no,
     sub |-> IF Get(t, "sub", <<>>) /= <<>> THEN t.sub
             ELSE Take(Get(t, "com", <<>>), 80),
     coins |-> coins,
     replies |-> Get(t, "replies", 0)]

\* if coins: hot_threads.append(...)
update_hot(hot, coins, t) ==
    IF coins /= {} THEN Append(hot, hot_entry(t, coins)) ELSE hot

\* x placed into a list already sorted by replies, descending, behind every
\* entry that does not have fewer replies
\* as insert, but in front of the entries with as many replies
RECURSIVE insert_Unstable(_, _)
insert_Unstable(x, s) ==
    IF s = <<>> THEN <<x>>
    ELSE IF Head(s).replies > x.replies
         THEN <<Head(s)>> \o insert_Unstable(x, Tail(s))
         ELSE <<x>> \o s

RECURSIVE insert(_, _)
insert(x, s) ==
    IF s = <<>> THEN <<x>>
    ELSE IF Head(s).replies >= x.replies
         THEN <<Head(s)>> \o insert(x, Tail(s))
         ELSE <<x>> \o s

\* hot_threads.sort(key=lambda x: x["replies"], reverse=True): a stable sort
RECURSIVE sort_by_replies(_)
sort_by_replies(s) ==
    IF s = <<>> THEN <<>>
    ELSE insert(s[Len(s)], sort_by_replies(SubSeq(s, 1, Len(s) - 1)))

TopN == 10

\* what analyze returns for the working list: the sorted list's [:10]
\* as hot_result, without the slice
hot_result_NoSlice(hot) == sort_by_replies(hot)

hot_result(hot) == Take(sort_by_replies(hot), TopN)

(***************************************************************************)
(* main                                                                    *)
(***************************************************************************)
\* if not coin_counts: print(...); return
\* main without the test of coin_counts
after_analyze_Always(counts) == "render"

after_analyze(counts) == IF DOMAIN counts = {} THEN "returned" ELSE "render"

\* generate_html(coin_counts, hot_threads, len(threads)): the document is
\* determined by its three arguments (and the clock)
NoHtml == [coins |-> <<>>, hot |-> <<>>, thread_count |-> -1]

generate_html(counts, hot, thread_count) ==
    [coins |-> counts, hot |-> hot, thread_count |-> thread_count]

(***************************************************************************)
(* Inputs                                                                  *)
(***************************************************************************)
ThreadA == [sub |-> <<"B", "T", "C", " ", "B", "T", "C">>, com |-> <<"b", "i", "t", "c", "o", "i", "n", " ", "s", "a", "t", "s">>, replies |-> 2]

ThreadB == [com |-> <<"<", "b", ">", "e", "t", "h", "e", "r", "<", "/", "b", ">", " ", "S", "O", "L">>, replies |-> 2]

ThreadC == [sub |-> <<"S", "O", "L">>]

ThreadD == [sub |-> <<"e", "t", "h", "e", "r", "n", "e", "t">>, com |-> <<"b", "t", "c">>, replies |-> 7]

ThreadE == [sub |-> <<"O", "P">>, com |-> <<>>, replies |-> 5]

ThreadF == [sub |-> <<>>, com |-> <<"B", "T", "C", " ", "B", "T", "C">>, replies |-> 5]

ThreadG == [replies |-> 1]

PageTemplates ==
    { [threads |-> <<ThreadA, ThreadB, ThreadC, ThreadF>>],
      [threads |-> <<ThreadD, ThreadE, ThreadF, ThreadA>>],
      [threads |-> <<ThreadD, ThreadG>>],
      [threads |-> <<NotAnObject>>],
      [page |-> 1] }

\* thread ids are unique in a catalog: the k-th thread of page p gets 10p + k
Numbered(pages) ==
    [p \in 1..Len(pages) |->
        IF "threads" \in DOMAIN pages[p]
        THEN [threads |->
                [k \in 1..Len(pages[p].threads) |->
                    IF IsObject(pages[p].threads[k])
                    THEN ("no" :> (10 * p + k)) @@ pages[p].threads[k]
                    ELSE pages[p].threads[k]]]
        ELSE pages[p]]

SeqsUpTo(S, n) == UNION {[1..m -> S] : m \in 0..n}

Responses ==
    {[kind |-> k] : k \in TransportErrors \cup {"not_json"}}
        \cup {[kind |-> "ok", body |-> Numbered(ps)] :
                 ps \in SeqsUpTo(PageTemplates, MaxPages)}

PipelineOrder == <<"fetch", "aggregate", "render", "open", "write">>

(***************************************************************************)
(* The run                                                                 *)
(***************************************************************************)
Init ==
    /\ response \in Responses
    /\ json_error_is_request_exception \in BOOLEAN
    /\ pc = "start"
    /\ threads = <<>>
    /\ idx = 0
    /\ coin_counts = <<>>
    /\ hot_threads = <<>>
    /\ html = NoHtml
    /\ file = "old"
    /\ out = <<>>
    /\ steps = <<>>
    /\ text = <<>>
    /\ found = {}

\* an exception e reaches the except clauses of main
Except(e) ==
    /\ pc' = Handler(e, json_error_is_request_exception).pc
    /\ out' = Append(out, Handler(e, json_error_is_request_exception).print)

\* threads = fetch_catalog()
FetchCatalog ==
    /\ pc = "start"
    /\ steps' = Append(steps, "fetch")
    /\ IF fetch_error(response) /= NoException
       THEN /\ Except(fetch_error(response))
            /\ UNCHANGED threads
       ELSE /\ threads' = flatten(response.body)
            /\ pc' = "analyze_call"
            /\ out' = Append(out, Message("fetched", ""))
    /\ UNCHANGED <<response, json_error_is_request_exception, idx,
                   coin_counts, hot_threads, html, file, text, found>>

\* coin_counts, hot_threads = analyze(threads): the two initialisations
AnalyzeCall ==
    /\ pc = "analyze_call"
    /\ steps' = Append(steps, "aggregate")
    /\ out' = Append(out, Message("analyzing", ""))
    /\ coin_counts' = <<>>
    /\ hot_threads' = <<>>
    /\ idx' = 0
    /\ pc' = "analyze"
    /\ UNCHANGED <<response, json_error_is_request_exception, threads, html,
                   file, text, found>>

\* one iteration of "for t in threads"
AnalyzeThread ==
    /\ pc = "analyze"
    /\ idx < Len(threads)
    /\ LET t == threads[idx + 1]
       IN  IF ~IsObject(t)
           THEN /\ Except("AttributeError")
                /\ UNCHANGED <<idx, coin_counts, hot_threads, text, found>>
           ELSE /\ text' = thread_text(t)
                /\ found' = extract_coins(thread_text(t))
                /\ coin_counts' = update_counts(coin_counts, found', t)
                /\ hot_threads' = update_hot(hot_threads, found', t)
                /\ idx' = idx + 1
                /\ UNCHANGED <<pc, out>>
    /\ UNCHANGED <<response, json_error_is_request_exception, threads, html,
                   file, steps>>

\* the sort and the slice that end analyze, then main's test of coin_counts
\* and its ranking table
AnalyzeReturn ==
    /\ pc = "analyze"
    /\ idx = Len(threads)
    /\ hot_threads' = hot_result(hot_threads)
    /\ pc' = after_analyze(coin_counts)
    /\ out' = Append(out, IF after_analyze(coin_counts) = "returned"
                          THEN Message("no_coins", "")
                          ELSE Message("ranking", ""))
    /\ UNCHANGED <<response, json_error_is_request_exception, threads, idx,
                   coin_counts, html, file, steps, text, found>>

\* html = generate_html(coin_counts, hot_threads, len(threads))
GenerateHtml ==
    /\ pc = "render"
    /\ steps' = Append(steps, "render")
    /\ html' = generate_html(coin_counts, hot_threads, Len(threads))
    /\ pc' = "open"
    /\ UNCHANGED <<response, json_error_is_request_exception, threads, idx,
                   coin_counts, hot_threads, file, out, text, found>>

\* open(output_file, "w", encoding="utf-8"): truncates the file, or raises
\* OSError and leaves it alone
OpenFile ==
    /\ pc = "open"
    /\ steps' = Append(steps, "open")
    /\ \E ok \in BOOLEAN :
          IF ok
          THEN /\ file' = "truncated"
               /\ pc' = "write"
               /\ UNCHANGED out
          ELSE /\ Except("OSError")
               /\ UNCHANGED file
    /\ UNCHANGED <<response, json_error_is_request_exception, threads, idx,
                   coin_counts, hot_threads, html, text, found>>

\* f.write(html), the close that ends the with block, and the success
\* message; a failed write leaves the truncated file behind
WriteFile ==
    /\ pc = "write"
    /\ steps' = Append(steps, "write")
    /\ \E ok \in BOOLEAN :
          IF ok
          THEN /\ file' = "report"
               /\ pc' = "returned"
               /\ out' = Append(out, Message("report_written", ""))
          ELSE /\ Except("OSError")
               /\ UNCHANGED file
    /\ UNCHANGED <<response, json_error_is_request_exception, threads, idx,
                   coin_counts, hot_threads, html, text, found>>

Next ==
    \/ FetchCatalog
    \/ AnalyzeCall
    \/ AnalyzeThread
    \/ AnalyzeReturn
    \/ GenerateHtml
    \/ OpenFile
    \/ WriteFile

Spec == Init /\ [][Next]_vars

(***************************************************************************)
(* The extractor on its own: one call of extract_coins on a bounded text   *)
(***************************************************************************)
Chunks ==
    { <<"B", "T", "C">>,
      <<"b", "t", "c">>,
      <<"e", "t", "h", "e", "r">>,
      <<"n", "e", "t">>,
      <<"S", "A", "T", "S">>,
      <<" ">>,
      <<"<">>,
      <<">">>,
      <<"_">> }

RECURSIVE Concat(_)
Concat(ss) == IF ss = <<>> THEN <<>> ELSE Head(ss) \o Concat(Tail(ss))

Texts == {Concat(cs) : cs \in SeqsUpTo(Chunks, MaxChunks)}

InitExtract ==
    /\ response = [kind |-> "ok", body |-> <<>>]
    /\ json_error_is_request_exception = TRUE
    /\ pc = "extract_call"
    /\ threads = <<>>
    /\ idx = 0
    /\ coin_counts = <<>>
    /\ hot_threads = <<>>
    /\ html = NoHtml
    /\ file = "old"
    /\ out = <<>>
    /\ steps = <<>>
    /\ text \in Texts
    /\ found = {}

\* found = extract_coins(text)
ExtractCoins ==
    /\ pc = "extract_call"
    /\ found' = extract_coins(text)
    /\ pc' = "extract_return"
    /\ UNCHANGED <<response, json_error_is_request_exception, threads, idx,
                   coin_counts, hot_threads, html, file, out, steps, text>>

NextExtract == ExtractCoins

SpecExtract == InitExtract /\ [][NextExtract]_vars

(***************************************************************************)
(* Properties                                                              *)
(***************************************************************************)
Last(s) == s[Len(s)]

Printed(msg) == \E k \in 1..Len(out) : out[k].msg = msg

Terminated == pc \in {"returned", "raised"}

\* analyze has returned to main
AnalyzeReturned == Printed("ranking") \/ Printed("no_coins")

\* the mention set of the k-th thread of the catalog
Mentions(k) == extract_coins(thread_text(threads[k]))

\* the pairs <<k, sym>> such that the k-th thread, one of the first n,
\* mentions sym
MentionPairs(n) == UNION {{<<k, sym>> : sym \in Mentions(k)} : k \in 1..n}

\* the positions in the catalog of the threads that mention a coin
MentionBearing == {k \in 1..Len(threads) : Mentions(k) /= {}}

\* C1: once aggregation has begun, and after each thread processed, the
\* count stored for a symbol is the number of threads processed so far whose
\* mention set contains the symbol, and is the length of the symbol's
\* thread-id list; a symbol no processed thread mentions has no entry.  So a
\* thread that mentions a symbol several times adds exactly 1.
C1_CountIsThreadCount ==
    "aggregate" \in Range(steps) =>
        LET pairs == MentionPairs(idx)
        IN  \A sym \in DOMAIN COINS \cup DOMAIN coin_counts :
                LET n == Cardinality({pr \in pairs : pr[2] = sym})
                IN  IF sym \in DOMAIN coin_counts
                    THEN /\ coin_counts[sym].count = n
                         /\ Len(coin_counts[sym].threads) = n
                         /\ n > 0
                    ELSE n = 0

\* a thread that names BTC twice by ticker and twice by alias has been
\* counted, and counted once
C1_Witness ==
    /\ pc = "analyze"
    /\ idx = 1
    /\ Occurrences("BTC", text) = 4
    /\ coin_counts["BTC"].count = 1

\* C2: the hot-thread list analyze returns has at most 10 entries, is sorted
\* by reply count non-increasing, and ranks a thread without a reply count
\* as having 0 replies.
C2_HotBoundedSorted ==
    AnalyzeReturned =>
        /\ Len(hot_threads) <= 10
        /\ \A k \in 1..(Len(hot_threads) - 1) :
               hot_threads[k].replies >= hot_threads[k + 1].replies
        /\ \A k \in 1..Len(hot_threads) : \A j \in 1..Len(threads) :
               (threads[j].no = hot_threads[k].no
                   /\ "replies" \notin DOMAIN threads[j])
                   => hot_threads[k].replies = 0

\* more than 10 threads mention a coin, one of the 10 kept has no reply count
C2_Witness ==
    /\ AnalyzeReturned
    /\ Len(hot_threads) = 10
    /\ Cardinality(MentionBearing) > 10
    /\ \E k \in 1..Len(hot_threads) : \E j \in 1..Len(threads) :
           /\ threads[j].no = hot_threads[k].no
           /\ "replies" \notin DOMAIN threads[j]
    /\ hot_threads[1].replies > hot_threads[10].replies

\* C3 as stated: a transport error ends the run with the cause reported,
\* nothing retried, no document written, and exception-style termination.
C3_Original ==
    (response.kind \in TransportErrors /\ Terminated) =>
        /\ out = <<Message("network_error", response.kind)>>
        /\ steps = <<"fetch">>
        /\ file = "old"
        /\ pc = "raised"

\* C3 as amended: a transport error ends the run at the fetch with the
\* cause reported, nothing retried and no document written, and main
\* returns normally: the exception is caught and not raised again.
C3_TransportErrorReturns ==
    (response.kind \in TransportErrors /\ pc /= "start") =>
        /\ out = <<Message("network_error", response.kind)>>
        /\ steps = <<"fetch">>
        /\ file = "old"
        /\ html = NoHtml
        /\ pc = "returned"

C3_Witness ==
    /\ response.kind = "Timeout"
    /\ pc = "returned"
    /\ Printed("network_error")

\* the response is valid JSON but a page lacks the threads list or a thread
\* object lacks the reply count
MissingFields ==
    /\ response.kind = "ok"
    /\ \E p \in 1..Len(response.body) :
          \/ "threads" \notin DOMAIN response.body[p]
          \/ \E k \in 1..Len(response.body[p].threads) :
                 /\ IsObject(response.body[p].threads[k])
                 /\ "replies" \notin DOMAIN response.body[p].threads[k]

\* C4 as stated: a malformed response (not JSON, or page or thread objects
\* missing expected fields) is fatal and the run does not go on into
\* aggregation or rendering.
C4_Original ==
    (response.kind = "not_json" \/ MissingFields) =>
        /\ "aggregate" \notin Range(steps)
        /\ "render" \notin Range(steps)

\* the threads of the pages that have a threads list, in page order
RECURSIVE PresentThreads(_)
PresentThreads(pages) ==
    IF pages = <<>> THEN <<>>
    ELSE (IF "threads" \in DOMAIN Head(pages) THEN Head(pages).threads
          ELSE <<>>) \o PresentThreads(Tail(pages))

\* C4 as amended: a body that is not JSON is fatal: the run stops at the
\* fetch with the error reported and no document written.  Missing fields
\* are not: a page without a threads list contributes no threads, a thread
\* without a reply count is given 0 replies, and neither raises an error,
\* the run going on into aggregation with these defaults.
C4_NotJsonFatalMissingDefaulted ==
    /\ (response.kind = "not_json" /\ pc /= "start") =>
           /\ Terminated
           /\ steps = <<"fetch">>
           /\ file = "old"
           /\ Len(out) = 1
           /\ out[1].msg \in {"network_error", "error"}
           /\ out[1].cause = "JSONDecodeError"
    /\ (response.kind = "ok" /\ pc /= "start") =>
           /\ threads = PresentThreads(response.body)
           /\ Terminated => "aggregate" \in Range(steps)
    /\ (pc = "raised" /\ Last(steps) = "aggregate") =>
           ~IsObject(threads[idx + 1])
    /\ \A k \in 1..Len(hot_threads) : \A j \in 1..Len(threads) :
           (IsObject(threads[j])
               /\ threads[j].no = hot_threads[k].no
               /\ "replies" \notin DOMAIN threads[j])
               => hot_threads[k].replies = 0

\* a report was written from a catalog with a page without a threads list
\* and a mention-bearing thread without a reply count
C4_Witness ==
    /\ file = "report"
    /\ \E p \in 1..Len(response.body) : "threads" \notin DOMAIN response.body[p]
    /\ \E k \in 1..Len(hot_threads) : \E j \in 1..Len(threads) :
           /\ threads[j].no = hot_threads[k].no
           /\ "replies" \notin DOMAIN threads[j]
           /\ hot_threads[k].replies = 0

\* C5: when analyze returns an empty mapping, as it does with an empty hot
\* list for a catalog of zero threads, main reports that no coin was
\* recognized, the renderer is not called, no document is written, and main
\* returns normally without any failure being reported.
C5_NoCoinsEndsCleanly ==
    AnalyzeReturned =>
        /\ Len(threads) = 0 => (DOMAIN coin_counts = {} /\ hot_threads = <<>>)
        /\ DOMAIN coin_counts = {} =>
               /\ pc = "returned"
               /\ Last(out) = Message("no_coins", "")
               /\ steps = <<"fetch", "aggregate">>
               /\ html = NoHtml
               /\ file = "old"
               /\ ~Printed("error")
               /\ ~Printed("network_error")
               /\ ~Printed("report_written")

\* a catalog with threads, none of which mentions a coin
C5_Witness ==
    /\ Printed("no_coins")
    /\ Len(threads) > 0
    /\ pc = "returned"

\* C6: every key of the aggregated mapping and every symbol in the coins of
\* a hot thread is a key of COINS, and so is every value of ALIASES.
C6_SymbolsKnown ==
    /\ DOMAIN coin_counts \subseteq DOMAIN COINS
    /\ \A k \in 1..Len(hot_threads) : hot_threads[k].coins \subseteq DOMAIN COINS
    /\ found \subseteq DOMAIN COINS
    /\ \A a \in DOMAIN ALIASES : ALIASES[a] \in DOMAIN COINS

\* symbols reached through aliases only (sats, ether) are in the mapping and
\* in a hot thread
C6_Witness ==
    /\ AnalyzeReturned
    /\ {"BTC", "ETH", "SOL"} \subseteq DOMAIN coin_counts
    /\ \E k \in 1..Len(hot_threads) : "ETH" \in hot_threads[k].coins

\* the maximal runs of word characters of s
Words(s) ==
    {SubSeq(s, i, j) : <<i, j>> \in
        {ij \in (1..Len(s)) \X (1..Len(s)) :
            /\ ij[1] <= ij[2]
            /\ \A k \in ij[1]..ij[2] : IsWord(s[k])
            /\ (ij[1] = 1 \/ ~IsWord(s[ij[1] - 1]))
            /\ (ij[2] = Len(s) \/ ~IsWord(s[ij[2] + 1]))}}

\* the set C7 describes
Described(txt) ==
    LET ws == Words(strip_tags(txt))
    IN  {ALIASES[a] : a \in {b \in DOMAIN ALIASES :
                                \E w \in ws : Join(lower(w)) = b}}
            \cup {Join(w) : w \in {v \in ws :
                                      /\ Len(v) \in 2..8
                                      /\ \A k \in 1..Len(v) : v[k] \in UpperLetters
                                      /\ Join(v) \in DOMAIN COINS}}

\* C7: extract_coins returns exactly the canonical symbols of the aliases
\* that occur, case-insensitively, as whole words of the tag-stripped text
\* together with the whole-word runs of 2-8 uppercase letters that are keys
\* of COINS; a text with neither yields the empty set.
C7_ExtractIsWholeWordMatches ==
    pc = "extract_return" => found = Described(text)

\* the alias ether inside ethernet, next to the lowercase ticker btc, is not
\* matched
C7_Witness ==
    /\ pc = "extract_return"
    /\ text = <<"e", "t", "h", "e", "r", "n", "e", "t", " ", "b", "t", "c">>
    /\ found = {}

IsPrefix(s, t) == Len(s) <= Len(t) /\ s = SubSeq(t, 1, Len(s))

\* C8: the steps of a run are entered in the order fetch, aggregation,
\* rendering, file open, file write, none twice; the file is touched only
\* after the fetch succeeded, every thread was aggregated, the mapping is
\* not empty and generate_html returned; a run that ends before the file
\* is opened leaves it as it was.
C8_PipelineOrder ==
    /\ IsPrefix(steps, PipelineOrder)
    /\ file /= "old" =>
           /\ Printed("fetched")
           /\ idx = Len(threads)
           /\ AnalyzeReturned
           /\ DOMAIN coin_counts /= {}
           /\ html = generate_html(coin_counts, hot_threads, Len(threads))
           /\ IsPrefix(<<"fetch", "aggregate", "render", "open">>, steps)
    /\ (Terminated /\ ~Printed("report_written")) => file \in {"old", "truncated"}
    /\ (Terminated /\ "write" \notin Range(steps)) => file = "old"
    /\ "open" \in Range(steps) => html /= NoHtml

\* a complete run: all five steps, the document written
C8_Witness ==
    /\ steps = PipelineOrder
    /\ file = "report"
    /\ pc = "returned"

\* thread k ranks before thread l: more replies first, earlier in the
\* catalog first among equals
RanksBefore(k, l) ==
    LET r(m) == Get(threads[m], "replies", 0)
    IN  r(k) > r(l) \/ (r(k) = r(l) /\ k < l)

\* C9: the list analyze returns is the first 10 of the threads that mention
\* a coin, ordered by reply count descending, threads with equal reply
\* counts in catalog order: its j-th entry is the mention-bearing thread
\* that exactly j-1 mention-bearing threads rank before.
C9_HotIsStableTop10 ==
    AnalyzeReturned =>
        LET M == MentionBearing
        IN  /\ Len(hot_threads) = (IF Cardinality(M) < 10 THEN Cardinality(M) ELSE 10)
            /\ \A j \in 1..Len(hot_threads) : \E k \in M :
                   /\ hot_threads[j].no = threads[k].no
                   /\ Cardinality({l \in M : RanksBefore(l, k)}) = j - 1
                   /\ hot_threads[j].replies = Get(threads[k], "replies", 0)
                   /\ hot_threads[j].coins = Mentions(k)

\* 11 or more mention-bearing threads, ties among those kept, and a thread
\* left out that comes earlier in the catalog than one kept
C9_Witness ==
    /\ AnalyzeReturned
    /\ Len(hot_threads) = 10
    /\ hot_threads[1].replies = hot_threads[2].replies
    /\ hot_threads[1].no < hot_threads[2].no
    /\ \E k \in MentionBearing :
           /\ \A j \in 1..10 : hot_threads[j].no /= threads[k].no
           /\ \E j \in 1..10 : threads[k].no < hot_threads[j].no

\* an exception left analyze, or left the open or the write of the file
AggregationFailed ==
    Terminated /\ Last(steps) = "aggregate" /\ ~AnalyzeReturned

WriteFailed ==
    Terminated /\ Last(steps) \in {"open", "write"} /\ file /= "report"

\* C10: an error raised during aggregation or the file write is reported
\* with its cause and propagated out of main, and the success message is not
\* printed.
C10_InternalErrorPropagates ==
    (AggregationFailed \/ WriteFailed) =>
        /\ pc = "raised"
        /\ Last(out) = Message("error", IF AggregationFailed
                                        THEN "AttributeError" ELSE "OSError")
        /\ ~Printed("report_written")

\* the write failed after the file was opened
C10_Witness ==
    /\ pc = "raised"
    /\ Last(steps) = "write"
    /\ file = "truncated"

====
